---- MODULE Spec2Model ----
(***************************************************************************)
(* Token lifecycle of the Frisbii Transform MCP server                     *)
(* (src/frisbii_transform_mcp/server.py): credential resolution, the token *)
(* cache file, the validity check, the client-credentials acquisition, the *)
(* per-call header construction and the OAuth2 administrative tools.       *)
(*                                                                         *)
(* Python values are represented as follows.                               *)
(*   Optional[x]   None is <<>>, a value x is <<x>>.                       *)
(*   dict          a function from its keys (strings) to its values.       *)
(*   file contents a sequence of JSON lexemes (see json_dump / json_load). *)
(*   time          whole seconds since the start of the run.               *)
(***************************************************************************)
EXTENDS Integers, Sequences, FiniteSets, TLC

VARIABLES
    OAUTH2_CLIENT_ID,      \* Optional[str], read from the environment at import
    OAUTH2_CLIENT_SECRET,  \* Optional[str]
    API_KEY,               \* Optional[str]
    auth_method,           \* "oauth2", "bearer" or "none" (Python None)
    token_file,            \* the file at TOKEN_STORAGE_FILE
    now,                   \* datetime.now().timestamp()
    issued,                \* number of access tokens the token endpoint has issued
    last,                  \* observation of the last operation that ran
    probe,                 \* input and result of a direct is_token_valid call
    calls,                 \* the get_client calls in progress, one per thread
    writer                 \* the call that wrote the token file last (0: none)

vars == <<OAUTH2_CLIENT_ID, OAUTH2_CLIENT_SECRET, API_KEY, auth_method,
          token_file, now, issued, last, probe, calls, writer>>

config == <<OAUTH2_CLIENT_ID, OAUTH2_CLIENT_SECRET, API_KEY, auth_method>>

concurrent == <<calls, writer>>

----------------------------------------------------------------------------
(* Bounds of the model *)

MaxTime == 90
MaxIssued == 2

\* lexemes a failing write may leave in the file: none, or the opening brace
PartialWrites == {0, 1}

\* how far the clock moves between two operations
TickSteps == {45}

\* lifetimes (seconds) behind the absolute expiry a grant response may carry
AbsoluteIn == {61}

\* lifetimes (seconds) a grant response may carry
ExpiresIn == {106}

----------------------------------------------------------------------------
(* Python values *)

None == <<>>
Some(x) == <<x>>
IsSome(o) == o # <<>>

\* truth value of an Optional[str]: None and "" are falsy
Truthy(o) == IsSome(o) /\ o[1] # ""

EmptyDict == <<>>
HasKey(d, k) == k \in DOMAIN d
\* dict.get(k)
Get(d, k) == IF HasKey(d, k) THEN Some(d[k]) ELSE None
\* d[k] = v
SetItem(d, k, v) == (k :> v) @@ d

Min(a, b) == IF a < b THEN a ELSE b

----------------------------------------------------------------------------
(* json.dump / json.load on a token dict *)

KeyOrder == <<"access_token", "expires_in", "expires_at">>

Lexeme(kind, text, num) == [kind |-> kind, text |-> text, num |-> num]
LBrace == Lexeme("{", "", 0)
RBrace == Lexeme("}", "", 0)

EncodeValue(k, v) ==
    IF k = "access_token" THEN Lexeme("string", v, 0) ELSE Lexeme("number", "", v)

DecodeValue(lex) == IF lex.kind = "string" THEN lex.text ELSE lex.num

RECURSIVE Members(_, _)
Members(token, i) ==
    IF i > Len(KeyOrder) THEN <<>>
    ELSE LET k == KeyOrder[i] IN
         (IF HasKey(token, k)
             THEN <<Lexeme("key", k, 0), EncodeValue(k, token[k])>>
             ELSE <<>>) \o Members(token, i + 1)

json_dump(token) == <<LBrace>> \o Members(token, 1) \o <<RBrace>>

RECURSIVE ParseMembers(_, _, _)
ParseMembers(s, i, acc) ==
    IF i > Len(s) THEN Some(acc)
    ELSE IF i + 1 > Len(s) THEN None
    ELSE IF s[i].kind # "key" \/ s[i + 1].kind \notin {"string", "number"} THEN None
    ELSE ParseMembers(s, i + 2, SetItem(acc, s[i].text, DecodeValue(s[i + 1])))

\* None stands for json.JSONDecodeError
json_load(content) ==
    IF Len(content) < 2 THEN None
    ELSE IF content[1] # LBrace \/ content[Len(content)] # RBrace THEN None
    ELSE ParseMembers(SubSeq(content, 2, Len(content) - 1), 1, EmptyDict)

----------------------------------------------------------------------------
(* Token storage functions *)

Missing == [exists |-> FALSE, content |-> <<>>]
FileWith(content) == [exists |-> TRUE, content |-> content]

\* what the file system does to one write of the token file
SaveOutcomes ==
    {[kind |-> "ok", written |-> 0], [kind |-> "open_failed", written |-> 0]}
    \cup {[kind |-> "write_failed", written |-> k] : k \in PartialWrites}

\* a save that writes the access token alone
save_token_AccessTokenOnly(f, token, io) ==
    IF io.kind = "ok"
       THEN FileWith(json_dump([k \in DOMAIN token \cap {"access_token"} |-> token[k]]))
       ELSE f

save_token(f, token, io) ==
    LET text == json_dump(token) IN
    CASE io.kind = "ok" -> FileWith(text)
      [] io.kind = "open_failed" -> f
      [] OTHER -> FileWith(SubSeq(text, 1, Min(io.written, Len(text) - 1)))

load_token(f) == IF f.exists THEN json_load(f.content) ELSE None

SAFETY_MARGIN == 60

\* a validity check that takes a record without expires_at for one that
\* never expires
is_token_valid_NoExpiryIsValid(token, t) ==
    IF ~IsSome(token) THEN FALSE
    ELSE IF DOMAIN token[1] = {} THEN FALSE
    ELSE IF ~HasKey(token[1], "expires_at") THEN TRUE
    ELSE t < token[1]["expires_at"] - SAFETY_MARGIN

\* a validity check that lets the boundary instant pass
is_token_valid_Inclusive(token, t) ==
    IF ~IsSome(token) THEN FALSE
    ELSE IF DOMAIN token[1] = {} \/ ~HasKey(token[1], "expires_at") THEN FALSE
    ELSE t <= token[1]["expires_at"] - SAFETY_MARGIN

is_token_valid(token, t) ==
    IF ~IsSome(token) THEN FALSE
    ELSE IF DOMAIN token[1] = {} \/ ~HasKey(token[1], "expires_at") THEN FALSE
    ELSE t < token[1]["expires_at"] - SAFETY_MARGIN

----------------------------------------------------------------------------
(* The token endpoint, as OAuth2Client.fetch_token presents it *)

AccessTokenOf(i) == "at" \o ToString(i)

\* the expiry fields a grant response may carry at time t
ExpiryParts(t) ==
    {EmptyDict}
    \cup {("expires_in" :> e) : e \in ExpiresIn}
    \cup {("expires_at" :> t + e) : e \in AbsoluteIn}

\* the access_token field of a grant response: missing, empty, or the next
\* token the server issues
AccessParts(n) ==
    {EmptyDict, ("access_token" :> "")}
    \cup (IF n < MaxIssued THEN {("access_token" :> AccessTokenOf(n + 1))} ELSE {})

FetchFailures == {"network_error", "error_status", "malformed"}

\* fetch_token either raises (outcome in FetchFailures) or returns a dict
EndpointOutcomes(t, n) ==
    {[outcome |-> o, token |-> EmptyDict] : o \in FetchFailures}
    \cup {[outcome |-> "token", token |-> a @@ x] :
             a \in AccessParts(n), x \in ExpiryParts(t)}

IssuesToken(ep) ==
    ep.outcome = "token" /\ HasKey(ep.token, "access_token")
        /\ ep.token["access_token"] # ""

----------------------------------------------------------------------------
(* HTTP client configuration *)

\* an expires_at that is the relative lifetime itself, not counted from the
\* time of receipt
WithExpiresAt_LifetimeOnly(token, t) ==
    IF ~HasKey(token, "expires_at") /\ HasKey(token, "expires_in")
        THEN SetItem(token, "expires_at", token["expires_in"])
        ELSE token

\* lines 112-114: add expires_at if not present
WithExpiresAt(token, t) ==
    IF ~HasKey(token, "expires_at") /\ HasKey(token, "expires_in")
        THEN SetItem(token, "expires_at", t + token["expires_in"])
        ELSE token

NoFetch(f, access) ==
    [access_token |-> access, file |-> f, endpoint |-> "not_called",
     endpointCalls |-> 0, fetched |-> None, io |-> "none"]

\* an acquisition that serves any stored record without checking its expiry
get_oauth2_token_NoExpiryCheck(id, secret, f, t, ep, io) ==
    IF ~Truthy(id) \/ ~Truthy(secret) THEN NoFetch(f, None)
    ELSE LET token == load_token(f) IN
         IF IsSome(token) /\ DOMAIN token[1] # {}
            THEN NoFetch(f, Get(token[1], "access_token"))
         ELSE IF ep.outcome \in FetchFailures
            THEN [access_token |-> None, file |-> f, endpoint |-> ep.outcome,
                  endpointCalls |-> 1, fetched |-> None, io |-> "none"]
         ELSE LET fresh == WithExpiresAt(ep.token, t) IN
              [access_token |-> Get(fresh, "access_token"),
               file |-> save_token(f, fresh, io),
               endpoint |-> ep.outcome, endpointCalls |-> 1,
               fetched |-> Some(fresh), io |-> io.kind]

\* an acquisition in which a failed save raises into the enclosing except
get_oauth2_token_SaveRaises(id, secret, f, t, ep, io) ==
    IF ~Truthy(id) \/ ~Truthy(secret) THEN NoFetch(f, None)
    ELSE LET token == load_token(f) IN
         IF IsSome(token) /\ DOMAIN token[1] # {} /\ is_token_valid(token, t)
            THEN NoFetch(f, Get(token[1], "access_token"))
         ELSE IF ep.outcome \in FetchFailures
            THEN [access_token |-> None, file |-> f, endpoint |-> ep.outcome,
                  endpointCalls |-> 1, fetched |-> None, io |-> "none"]
         ELSE LET fresh == WithExpiresAt(ep.token, t) IN
              [access_token |-> IF io.kind = "ok" THEN Get(fresh, "access_token") ELSE None,
               file |-> save_token(f, fresh, io),
               endpoint |-> ep.outcome, endpointCalls |-> 1,
               fetched |-> Some(fresh), io |-> io.kind]

\* an acquisition that gives up, without asking the endpoint, when the token
\* file exists but yields no record
get_oauth2_token_LoadRaises(id, secret, f, t, ep, io) ==
    IF ~Truthy(id) \/ ~Truthy(secret) THEN NoFetch(f, None)
    ELSE LET token == load_token(f) IN
         IF f.exists /\ ~IsSome(token) THEN NoFetch(f, None)
         ELSE IF IsSome(token) /\ DOMAIN token[1] # {} /\ is_token_valid(token, t)
            THEN NoFetch(f, Get(token[1], "access_token"))
         ELSE IF ep.outcome \in FetchFailures
            THEN [access_token |-> None, file |-> f, endpoint |-> ep.outcome,
                  endpointCalls |-> 1, fetched |-> None, io |-> "none"]
         ELSE LET fresh == WithExpiresAt(ep.token, t) IN
              [access_token |-> Get(fresh, "access_token"),
               file |-> save_token(f, fresh, io),
               endpoint |-> ep.outcome, endpointCalls |-> 1,
               fetched |-> Some(fresh), io |-> io.kind]

\* id, secret: the configured pair; f: the token file; t: the clock;
\* ep: what the token endpoint does if asked; io: what a write of the file does
get_oauth2_token(id, secret, f, t, ep, io) ==
    IF ~Truthy(id) \/ ~Truthy(secret) THEN NoFetch(f, None)
    ELSE LET token == load_token(f) IN
         IF IsSome(token) /\ DOMAIN token[1] # {} /\ is_token_valid(token, t)
            THEN NoFetch(f, Get(token[1], "access_token"))
         ELSE IF ep.outcome \in FetchFailures
            THEN [access_token |-> None, file |-> f, endpoint |-> ep.outcome,
                  endpointCalls |-> 1, fetched |-> None, io |-> "none"]
         ELSE LET fresh == WithExpiresAt(ep.token, t) IN
              [access_token |-> Get(fresh, "access_token"),
               file |-> save_token(f, fresh, io),
               endpoint |-> ep.outcome, endpointCalls |-> 1,
               fetched |-> Some(fresh), io |-> io.kind]

BaseHeaders == ("Content-Type" :> "application/json") @@ ("Accept" :> "application/json")

OAuth2Failure == "Authentication failed: Unable to obtain OAuth2 token"
NoCredentials == "Authentication failed: No valid credentials configured"

\* a client that falls back to the static key when no OAuth2 token is obtained
get_client_FallbackToKey(method, id, secret, key, f, t, ep, io) ==
    LET r == get_oauth2_token(id, secret, f, t, ep, io) IN
    IF method = "oauth2" /\ Truthy(r.access_token) THEN
        [error |-> "",
         headers |-> Some(SetItem(BaseHeaders, "Authorization",
                                  "Bearer " \o r.access_token[1])),
         token |-> r]
    ELSE IF Truthy(key) THEN
        [error |-> "",
         headers |-> Some(SetItem(BaseHeaders, "Authorization", "Bearer " \o key[1])),
         token |-> IF method = "oauth2" THEN r ELSE NoFetch(f, None)]
    ELSE [error |-> IF method = "oauth2" THEN OAuth2Failure ELSE NoCredentials,
          headers |-> None,
          token |-> IF method = "oauth2" THEN r ELSE NoFetch(f, None)]

\* a client that serves a stored token that is still valid under the static
\* key scheme as well
get_client_BearerUsesCache(method, id, secret, key, f, t, ep, io) ==
    IF method = "oauth2" THEN
        LET r == get_oauth2_token(id, secret, f, t, ep, io) IN
        IF Truthy(r.access_token)
           THEN [error |-> "",
                 headers |-> Some(SetItem(BaseHeaders, "Authorization",
                                          "Bearer " \o r.access_token[1])),
                 token |-> r]
           ELSE [error |-> OAuth2Failure, headers |-> None, token |-> r]
    ELSE IF method = "bearer" /\ Truthy(key) THEN
        LET r == get_oauth2_token(Some("any"), Some("any"), f, t,
                                  [outcome |-> "network_error", token |-> EmptyDict], io)
        IN  [error |-> "",
             headers |-> Some(SetItem(BaseHeaders, "Authorization",
                                      "Bearer " \o (IF Truthy(r.access_token)
                                                       THEN r.access_token[1]
                                                       ELSE key[1]))),
             token |-> NoFetch(f, None)]
    ELSE [error |-> NoCredentials, headers |-> None, token |-> NoFetch(f, None)]

\* a client that goes on without an Authorization header when no
\* credentials are configured
get_client_NoRaise(method, id, secret, key, f, t, ep, io) ==
    IF method = "oauth2" THEN
        LET r == get_oauth2_token(id, secret, f, t, ep, io) IN
        IF Truthy(r.access_token)
           THEN [error |-> "",
                 headers |-> Some(SetItem(BaseHeaders, "Authorization",
                                          "Bearer " \o r.access_token[1])),
                 token |-> r]
           ELSE [error |-> OAuth2Failure, headers |-> None, token |-> r]
    ELSE IF method = "bearer" /\ Truthy(key) THEN
        [error |-> "",
         headers |-> Some(SetItem(BaseHeaders, "Authorization", "Bearer " \o key[1])),
         token |-> NoFetch(f, None)]
    ELSE [error |-> "", headers |-> Some(BaseHeaders), token |-> NoFetch(f, None)]

\* the client (its headers) or the exception raised, and what the token
\* acquisition did on the way
get_client(method, id, secret, key, f, t, ep, io) ==
    IF method = "oauth2" THEN
        LET r == get_oauth2_token(id, secret, f, t, ep, io) IN
        IF Truthy(r.access_token)
           THEN [error |-> "",
                 headers |-> Some(SetItem(BaseHeaders, "Authorization",
                                          "Bearer " \o r.access_token[1])),
                 token |-> r]
           ELSE [error |-> OAuth2Failure, headers |-> None, token |-> r]
    ELSE IF method = "bearer" /\ Truthy(key) THEN
        [error |-> "",
         headers |-> Some(SetItem(BaseHeaders, "Authorization", "Bearer " \o key[1])),
         token |-> NoFetch(f, None)]
    ELSE [error |-> NoCredentials, headers |-> None, token |-> NoFetch(f, None)]

----------------------------------------------------------------------------
(* Authentication configuration check (module import) *)

\* a resolver that prefers the static key
ResolveAuthMethod_KeyFirst(id, secret, key) ==
    IF Truthy(key) THEN "bearer"
    ELSE IF Truthy(id) /\ Truthy(secret) THEN "oauth2"
    ELSE "none"

ResolveAuthMethod(id, secret, key) ==
    IF Truthy(id) /\ Truthy(secret) THEN "oauth2"
    ELSE IF Truthy(key) THEN "bearer"
    ELSE "none"

\* what os.getenv may give for one variable: unset, empty, or a value
EnvValues(v) == {None, Some(""), Some(v)}

----------------------------------------------------------------------------
(* OAuth2 management tools *)

RemoveOutcomes == {"ok", "failed"}

Result(success, text) == [success |-> success, text |-> text]

\* a refresh that does not delete the token file first
oauth2_refresh_token_KeepsFile(id, secret, f, t, ep, io, rm) ==
    IF ~Truthy(id) \/ ~Truthy(secret)
       THEN [result |-> Result(FALSE, "OAuth2 credentials not configured"),
             raised |-> "", token |-> NoFetch(f, None)]
    ELSE LET r == get_oauth2_token(id, secret, f, t, ep, io) IN
         [result |-> IF Truthy(r.access_token)
                        THEN Result(TRUE, "OAuth2 token refreshed successfully")
                        ELSE Result(FALSE, "Failed to obtain new OAuth2 token"),
          raised |-> "", token |-> r]

\* a refresh whose os.remove sits outside the try block
oauth2_refresh_token_RemoveUnguarded(id, secret, f, t, ep, io, rm) ==
    IF ~Truthy(id) \/ ~Truthy(secret)
       THEN [result |-> Result(FALSE, "OAuth2 credentials not configured"),
             raised |-> "", token |-> NoFetch(f, None)]
    ELSE IF f.exists /\ rm = "failed"
       THEN [result |-> Result(FALSE, ""), raised |-> "OSError",
             token |-> NoFetch(f, None)]
    ELSE LET r == get_oauth2_token(id, secret, Missing, t, ep, io) IN
         [result |-> IF Truthy(r.access_token)
                        THEN Result(TRUE, "OAuth2 token refreshed successfully")
                        ELSE Result(FALSE, "Failed to obtain new OAuth2 token"),
          raised |-> "", token |-> r]

\* rm: what os.remove does if called; raised: the exception that leaves the
\* tool ("" for none)
oauth2_refresh_token(id, secret, f, t, ep, io, rm) ==
    IF ~Truthy(id) \/ ~Truthy(secret)
       THEN [result |-> Result(FALSE, "OAuth2 credentials not configured"),
             raised |-> "", token |-> NoFetch(f, None)]
    ELSE IF f.exists /\ rm = "failed"
       THEN [result |-> Result(FALSE, "Failed to refresh OAuth2 token: OSError"),
             raised |-> "", token |-> NoFetch(f, None)]
    ELSE LET r == get_oauth2_token(id, secret, Missing, t, ep, io) IN
         [result |-> IF Truthy(r.access_token)
                        THEN Result(TRUE, "OAuth2 token refreshed successfully")
                        ELSE Result(FALSE, "Failed to obtain new OAuth2 token"),
          raised |-> "", token |-> r]

\* a clear that reports a missing file as a failure
oauth2_clear_token_MissingFails(f, rm) ==
    IF f.exists /\ rm # "failed"
       THEN [result |-> Result(TRUE, "OAuth2 token cleared successfully"),
             raised |-> "", file |-> Missing]
       ELSE [result |-> Result(FALSE, "Failed to clear OAuth2 token: OSError"),
             raised |-> "", file |-> f]

oauth2_clear_token(f, rm) ==
    IF f.exists
       THEN IF rm = "failed"
               THEN [result |-> Result(FALSE, "Failed to clear OAuth2 token: OSError"),
                     raised |-> "", file |-> f]
               ELSE [result |-> Result(TRUE, "OAuth2 token cleared successfully"),
                     raised |-> "", file |-> Missing]
       ELSE [result |-> Result(TRUE, "No OAuth2 token file found"),
             raised |-> "", file |-> f]

\* the token part of the status report; None when the method is not oauth2
oauth2_status(method, f, t) ==
    IF method # "oauth2" THEN None
    ELSE LET token == load_token(f) IN
         IF IsSome(token) /\ DOMAIN token[1] # {}
            THEN Some([token_exists |-> TRUE,
                       token_valid |-> is_token_valid(token, t),
                       token_expires_at |-> Get(token[1], "expires_at")])
            ELSE Some([token_exists |-> FALSE, token_valid |-> FALSE,
                       token_expires_at |-> None])

----------------------------------------------------------------------------
(* State machine *)

NoResult == Result(FALSE, "")

\* how the token file looks to an observer at time t: no file, a file that
\* does not parse, a record without expires_at, a record whose expires_at is
\* in the past, within the safety margin, or beyond it
CacheState(f, t) ==
    IF ~f.exists THEN "missing"
    ELSE LET token == json_load(f.content) IN
         IF ~IsSome(token) THEN "unparseable"
         ELSE IF ~HasKey(token[1], "expires_at") THEN "no_expiry"
         ELSE IF token[1]["expires_at"] < t THEN "expired"
         ELSE IF token[1]["expires_at"] <= t + SAFETY_MARGIN THEN "margin"
         ELSE "beyond_margin"

\* what an observer of one operation sees: op, the token file as the operation
\* found it (cache), what the token acquisition
\* did (r), the exception raised (error, "" for none), the headers of the
\* client built, the number of business HTTP calls, the structured result of
\* an administrative tool, the token part of a status report
Observation(op, r, error, headers, businessCalls, result, status) ==
    [op |-> op, cache |-> CacheState(token_file, now),
     endpoint |-> r.endpoint, endpointCalls |-> r.endpointCalls,
     fetched |-> r.fetched, io |-> r.io, access_token |-> r.access_token,
     error |-> error, headers |-> headers, businessCalls |-> businessCalls,
     result |-> result, status |-> status]

NoProbe == [token |-> None, called |-> FALSE, result |-> FALSE]

\* the threads of a host that runs tools concurrently
Callers == {1, 2}

\* a get_client call: where it stands (pc), the stored record it accepted
\* (loaded), what fetch_token did (endpoint) and returned (fetched, with
\* expires_at added), what get_oauth2_token returned (access_token), and what
\* get_client returned (headers) or raised (error)
NotCalled ==
    [pc |-> "none", loaded |-> None, endpoint |-> "not_called", fetched |-> None,
     access_token |-> None, headers |-> None, error |-> ""]

NoCalls == [p \in Callers |-> NotCalled]

\* a token file left by an earlier run of the server
EarlierRecords ==
    {("access_token" :> "at0") @@ ("expires_at" :> e) : e \in AbsoluteIn}

InitialFiles ==
    {Missing, FileWith(<<>>)} \cup {FileWith(json_dump(r)) : r \in EarlierRecords}

Init ==
    /\ OAUTH2_CLIENT_ID \in EnvValues("client-id")
    /\ OAUTH2_CLIENT_SECRET \in EnvValues("client-secret") \ {Some("")}
    /\ API_KEY \in EnvValues("api-key") \ {Some("")}
    /\ auth_method = ResolveAuthMethod(OAUTH2_CLIENT_ID, OAUTH2_CLIENT_SECRET, API_KEY)
    /\ token_file \in InitialFiles
    /\ now = 0
    /\ issued = 0
    /\ last = Observation("none", NoFetch(token_file, None), "", None, 0, NoResult, None)
    /\ probe = NoProbe
    /\ calls = NoCalls
    /\ writer = 0

Issue(r, ep) == IF r.endpointCalls = 1 /\ IssuesToken(ep) THEN issued + 1 ELSE issued

\* An input the operation does not consume is fixed instead of enumerated.
Unused(S) == {CHOOSE x \in S : TRUE}
Consumed(S, used) == IF used THEN S ELSE Unused(S)

\* any API tool (get_customer, ...): get_client, then the business request
ApiOperation ==
    \E ep \in EndpointOutcomes(now, issued) :
    \E io \in Consumed(SaveOutcomes, ep.outcome = "token") :
        \E c \in {get_client(auth_method, OAUTH2_CLIENT_ID, OAUTH2_CLIENT_SECRET,
                            API_KEY, token_file, now, ep, io)} :
            /\ c.token.endpointCalls = 0 =>
                   ep \in Unused(EndpointOutcomes(now, issued)) /\ io \in Unused(SaveOutcomes)
            /\ token_file' = c.token.file
            /\ issued' = Issue(c.token, ep)
            /\ last' = Observation("api_operation", c.token, c.error, c.headers,
                                   IF c.error = "" THEN 1 ELSE 0, NoResult, None)
            /\ UNCHANGED <<config, concurrent, now, probe>>

Oauth2Status ==
    /\ last' = Observation("oauth2_status", NoFetch(token_file, None), "", None, 0,
                           NoResult, oauth2_status(auth_method, token_file, now))
    /\ UNCHANGED <<config, concurrent, token_file, now, issued, probe>>

Oauth2RefreshToken ==
    \E rm \in Consumed(RemoveOutcomes, token_file.exists) :
    \E ep \in Consumed(EndpointOutcomes(now, issued), ~(token_file.exists /\ rm = "failed")) :
    \E io \in Consumed(SaveOutcomes, ep.outcome = "token") :
        \E o \in {oauth2_refresh_token(OAUTH2_CLIENT_ID, OAUTH2_CLIENT_SECRET,
                                      token_file, now, ep, io, rm)} :
            /\ o.token.endpointCalls = 0 =>
                   ep \in Unused(EndpointOutcomes(now, issued)) /\ io \in Unused(SaveOutcomes)
            /\ token_file' = o.token.file
            /\ issued' = Issue(o.token, ep)
            /\ last' = Observation("oauth2_refresh_token", o.token, o.raised, None, 0,
                                   o.result, None)
            /\ UNCHANGED <<config, concurrent, now, probe>>

Oauth2ClearToken ==
    \E rm \in Consumed(RemoveOutcomes, token_file.exists) :
        LET o == oauth2_clear_token(token_file, rm)
        IN  /\ token_file' = o.file
            /\ last' = Observation("oauth2_clear_token", NoFetch(o.file, None),
                                   o.raised, None, 0, o.result, None)
            /\ UNCHANGED <<config, concurrent, now, issued, probe>>

Tick ==
    \E d \in TickSteps :
        /\ now + d <= MaxTime
        /\ now' = now + d
        /\ UNCHANGED <<config, concurrent, token_file, issued, last, probe>>

Next ==
    \/ ApiOperation
    \/ Oauth2Status
    \/ Oauth2RefreshToken
    \/ Oauth2ClearToken
    \/ Tick

Spec == Init /\ [][Next]_vars

----------------------------------------------------------------------------
(* is_token_valid called directly, on any record at any time *)

\* the values the clock of Spec takes
ClockValues == {t \in 0 .. MaxTime : \E d \in TickSteps : t % d = 0}

\* expiry instants around the safety margin of every clock value
ProbeExpiries ==
    {t + d : t \in ClockValues,
             d \in {0, SAFETY_MARGIN - 1, SAFETY_MARGIN, SAFETY_MARGIN + 1} \cup ExpiresIn}

ProbeTokens ==
    {None}
    \cup {Some(a @@ x) : a \in AccessParts(0),
                         x \in ExpiryParts(0) \cup {("expires_at" :> e) : e \in ProbeExpiries}}

ValidatorInit ==
    /\ OAUTH2_CLIENT_ID = None
    /\ OAUTH2_CLIENT_SECRET = None
    /\ API_KEY = None
    /\ auth_method = ResolveAuthMethod(OAUTH2_CLIENT_ID, OAUTH2_CLIENT_SECRET, API_KEY)
    /\ token_file = Missing
    /\ now \in ClockValues
    /\ issued = 0
    /\ last = Observation("none", NoFetch(token_file, None), "", None, 0, NoResult, None)
    /\ probe \in {[token |-> tk, called |-> FALSE, result |-> FALSE] : tk \in ProbeTokens}
    /\ calls = NoCalls
    /\ writer = 0

CallIsTokenValid ==
    /\ ~probe.called
    /\ probe' = [probe EXCEPT !.called = TRUE, !.result = is_token_valid(probe.token, now)]
    /\ UNCHANGED <<config, concurrent, token_file, now, issued, last>>

ValidatorNext == CallIsTokenValid

ValidatorSpec == ValidatorInit /\ [][ValidatorNext]_vars

----------------------------------------------------------------------------
(* Two get_client calls running concurrently under the OAuth2 scheme, with a
   token file that can be written. Each call takes the steps of
   get_oauth2_token one at a time: load_token and the validity check,
   fetch_token, open(..., 'w'), the write of json.dump at close, the return. *)

\* lines 135-141: the header for an access token, or the exception
Authenticate(access) ==
    IF Truthy(access)
       THEN [error |-> "",
             headers |-> Some(SetItem(BaseHeaders, "Authorization",
                                      "Bearer " \o access[1]))]
       ELSE [error |-> OAuth2Failure, headers |-> None]

\* open(TOKEN_STORAGE_FILE, 'w') creates the file or truncates it
OpenForWriting(f) == FileWith(<<>>)

\* the buffered text reaches the file when it is closed, at the start of the
\* file: it replaces what is there, and what lies beyond its end stays
WriteFromStart(f, text) ==
    FileWith(text \o SubSeq(f.content, Len(text) + 1, Len(f.content)))

ConcInit ==
    /\ OAUTH2_CLIENT_ID = Some("client-id")
    /\ OAUTH2_CLIENT_SECRET = Some("client-secret")
    /\ API_KEY \in EnvValues("api-key") \ {Some("")}
    /\ auth_method = ResolveAuthMethod(OAUTH2_CLIENT_ID, OAUTH2_CLIENT_SECRET, API_KEY)
    /\ token_file \in InitialFiles
    /\ now \in ClockValues
    /\ ~is_token_valid(load_token(token_file), now)
    /\ issued = 0
    /\ last = Observation("none", NoFetch(token_file, None), "", None, 0, NoResult, None)
    /\ probe = NoProbe
    /\ calls = [p \in Callers |-> [NotCalled EXCEPT !.pc = "load"]]
    /\ writer = 0

Finish(call, access) ==
    LET a == Authenticate(access) IN
    [call EXCEPT !.pc = "done", !.access_token = access,
                 !.headers = a.headers, !.error = a.error]

\* lines 92-96
Load(p) ==
    /\ calls[p].pc = "load"
    /\ LET token == load_token(token_file) IN
       IF IsSome(token) /\ DOMAIN token[1] # {} /\ is_token_valid(token, now)
          THEN calls' = [calls EXCEPT ![p] =
                            Finish([@ EXCEPT !.loaded = token],
                                   Get(token[1], "access_token"))]
          ELSE calls' = [calls EXCEPT ![p].pc = "fetch"]
    /\ UNCHANGED <<config, token_file, now, issued, last, probe, writer>>

\* lines 99-114 and 119-121
Fetch(p) ==
    /\ calls[p].pc = "fetch"
    /\ \E ep \in EndpointOutcomes(now, issued) :
          /\ calls' = [calls EXCEPT ![p] =
                IF ep.outcome \in FetchFailures
                   THEN Finish([@ EXCEPT !.endpoint = ep.outcome], None)
                   ELSE [@ EXCEPT !.pc = "open", !.endpoint = ep.outcome,
                                  !.fetched = Some(WithExpiresAt(ep.token, now))]]
          /\ issued' = IF IssuesToken(ep) THEN issued + 1 ELSE issued
    /\ UNCHANGED <<config, token_file, now, last, probe, writer>>

\* line 58
Open(p) ==
    /\ calls[p].pc = "open"
    /\ token_file' = OpenForWriting(token_file)
    /\ calls' = [calls EXCEPT ![p].pc = "write"]
    /\ UNCHANGED <<config, now, issued, last, probe, writer>>

\* line 59 and the end of the with block
Write(p) ==
    /\ calls[p].pc = "write"
    /\ token_file' = WriteFromStart(token_file, json_dump(calls[p].fetched[1]))
    /\ writer' = p
    /\ calls' = [calls EXCEPT ![p].pc = "return"]
    /\ UNCHANGED <<config, now, issued, last, probe>>

\* line 117, then lines 135-141
Return(p) ==
    /\ calls[p].pc = "return"
    /\ calls' = [calls EXCEPT ![p] = Finish(@, Get(calls[p].fetched[1], "access_token"))]
    /\ UNCHANGED <<config, token_file, now, issued, last, probe, writer>>

ConcNext ==
    \E p \in Callers : Load(p) \/ Fetch(p) \/ Open(p) \/ Write(p) \/ Return(p)

ConcSpec == ConcInit /\ [][ConcNext]_vars

----------------------------------------------------------------------------
(* Properties *)

\* the OAuth2 client identifier and secret are both configured
OAuth2Pair == Truthy(OAUTH2_CLIENT_ID) /\ Truthy(OAUTH2_CLIENT_SECRET)

\* the step is one API operation (one get_client call)
ApiStep == last'.op = "api_operation" /\ now' = now

\* the step is one oauth2_clear_token call
ClearStep == last'.op = "oauth2_clear_token" /\ now' = now

Authorization(obs) == obs.headers[1]["Authorization"]

\* the token endpoint was asked and answered with a non-empty access_token
GrantSucceeded(obs) ==
    /\ obs.endpoint = "token"
    /\ IsSome(obs.fetched)
    /\ HasKey(obs.fetched[1], "access_token")
    /\ obs.fetched[1]["access_token"] # ""

\* the token endpoint was asked and gave no usable grant
GrantFailed(obs) ==
    \/ obs.endpoint \in FetchFailures
    \/ obs.endpoint = "token" /\ ~GrantSucceeded(obs)

\* the access token held by the token file, if it holds one
StoredAccessToken(f) ==
    IF IsSome(load_token(f)) THEN Get(load_token(f)[1], "access_token") ELSE None

\* C1 as stated: under OAuth2, with a stored record whose expires_at is in the
\* past and a token endpoint that answers successfully, one get_client call
\* makes exactly one acquisition, the Authorization header is "Bearer " and
\* the newly acquired access_token (not the stored one), and afterwards the
\* token store holds the newly acquired record.
C1_AsStated ==
    [][(ApiStep /\ OAuth2Pair /\ CacheState(token_file, now) = "expired")
         => /\ last'.endpointCalls = 1
            /\ GrantSucceeded(last')
                 => /\ IsSome(last'.headers)
                    /\ Authorization(last') = "Bearer " \o last'.fetched[1]["access_token"]
                    /\ Some(last'.fetched[1]["access_token"]) # StoredAccessToken(token_file)
                    /\ load_token(token_file') = last'.fetched]_vars

\* C1 (amended): as C1, except that the token store holds the newly acquired
\* record afterwards when the write of the token file succeeds.
C1_ExpiredTokenIsReplaced ==
    [][(ApiStep /\ OAuth2Pair /\ CacheState(token_file, now) = "expired")
         => /\ last'.endpointCalls = 1
            /\ GrantSucceeded(last')
                 => /\ IsSome(last'.headers)
                    /\ Authorization(last') = "Bearer " \o last'.fetched[1]["access_token"]
                    /\ Some(last'.fetched[1]["access_token"]) # StoredAccessToken(token_file)
                    /\ last'.io = "ok" => load_token(token_file') = last'.fetched]_vars

C1_Witness ==
    /\ OAuth2Pair
    /\ last.op = "api_operation"
    /\ last.cache = "expired"
    /\ last.endpointCalls = 1
    /\ GrantSucceeded(last)
    /\ last.io = "ok"
    /\ IsSome(last.headers)
    /\ load_token(token_file) = last.fetched

\* C2 as stated: under OAuth2, with a stored record that is_token_valid
\* accepts, get_client makes no token-endpoint call, sets Authorization to
\* "Bearer " and the cached access_token, and leaves the token store unchanged.
C2_AsStated ==
    [][(ApiStep /\ OAuth2Pair /\ is_token_valid(load_token(token_file), now))
         => /\ last'.endpointCalls = 0
            /\ token_file' = token_file
            /\ IsSome(last'.headers)
            /\ Truthy(StoredAccessToken(token_file))
            /\ Authorization(last') = "Bearer " \o StoredAccessToken(token_file)[1]]_vars

\* C3: is_token_valid is false for an absent record and for a record without
\* expires_at, false for every expires_at <= now + 60, true for every
\* expires_at > now + 60.
C3_ValidityBoundary ==
    probe.called =>
        IF ~IsSome(probe.token) THEN probe.result = FALSE
        ELSE IF ~HasKey(probe.token[1], "expires_at") THEN probe.result = FALSE
        ELSE IF probe.token[1]["expires_at"] <= now + 60 THEN probe.result = FALSE
        ELSE probe.result = TRUE

C3_Witness ==
    /\ probe.called
    /\ IsSome(probe.token)
    /\ HasKey(probe.token[1], "expires_at")
    /\ probe.token[1]["expires_at"] = now + 60
    /\ probe.result = FALSE

\* C4: the resolved scheme is OAuth2 whenever client identifier and secret
\* are both present, whether or not a static key is present; StaticBearer
\* when a static key is present and the pair is incomplete; None otherwise.
\* Under OAuth2 get_client never puts the static key in the Authorization
\* header.
C4_SchemePrecedence ==
    /\ OAuth2Pair => auth_method = "oauth2"
    /\ (~OAuth2Pair /\ Truthy(API_KEY)) => auth_method = "bearer"
    /\ (~OAuth2Pair /\ ~Truthy(API_KEY)) => auth_method = "none"
    /\ (OAuth2Pair /\ Truthy(API_KEY) /\ last.op = "api_operation" /\ IsSome(last.headers))
          => Authorization(last) # "Bearer " \o API_KEY[1]

C4_Witness ==
    /\ OAuth2Pair
    /\ Truthy(API_KEY)
    /\ auth_method = "oauth2"
    /\ last.op = "api_operation"
    /\ IsSome(last.headers)

\* C5: with a static key and no complete OAuth2 pair, every get_client call,
\* whatever the token store contains, produces Authorization = "Bearer " and
\* the configured key, makes no token-endpoint call and leaves the token
\* store as it is.
C5_StaticKeyOnly ==
    [][(ApiStep /\ ~OAuth2Pair /\ Truthy(API_KEY))
         => /\ last'.error = ""
            /\ IsSome(last'.headers)
            /\ Authorization(last') = "Bearer " \o API_KEY[1]
            /\ last'.endpointCalls = 0
            /\ token_file' = token_file]_vars

C5_Witness ==
    /\ ~OAuth2Pair
    /\ Truthy(API_KEY)
    /\ last.op = "api_operation"
    /\ last.cache = "beyond_margin"
    /\ IsSome(last.headers)
    /\ Authorization(last) = "Bearer api-key"

\* C6: with neither a complete OAuth2 pair nor a static key, the scheme
\* resolves (to None) without failing, and every get_client call raises the
\* no-credentials authentication error, builds no headers, and makes no call
\* to the token endpoint or to the business API.
C6_NoCredentials ==
    (~OAuth2Pair /\ ~Truthy(API_KEY))
       => /\ auth_method = "none"
          /\ last.op = "api_operation"
               => /\ last.error = NoCredentials
                  /\ last.headers = None
                  /\ last.endpointCalls = 0
                  /\ last.businessCalls = 0

C6_Witness ==
    /\ ~OAuth2Pair
    /\ ~Truthy(API_KEY)
    /\ last.op = "api_operation"
    /\ last.error = "Authentication failed: No valid credentials configured"

\* C7 as stated: oauth2_clear_token returns success when no token file exists
\* and leaves the store unchanged; when a token file exists it removes it and
\* returns success, so that load_token then returns absent.
C7_AsStated ==
    [][ClearStep
         => /\ last'.result.success
            /\ ~token_file.exists => token_file' = token_file
            /\ token_file.exists => ~token_file'.exists /\ load_token(token_file') = None]_vars

\* C7 (amended): oauth2_clear_token returns success when no token file exists
\* and leaves the store unchanged; when a token file exists it either removes
\* it and returns success, so that load_token then returns absent, or (the
\* deletion failed) returns success = false and leaves the file in place.
C7_ClearToken ==
    [][ClearStep
         => /\ ~token_file.exists => last'.result.success /\ token_file' = token_file
            /\ token_file.exists
                 => \/ /\ last'.result.success
                       /\ ~token_file'.exists
                       /\ load_token(token_file') = None
                    \/ /\ ~last'.result.success
                       /\ token_file' = token_file]_vars

C7_Witness ==
    /\ last.op = "oauth2_clear_token"
    /\ last.cache # "missing"
    /\ last.result.success
    /\ ~token_file.exists
    /\ load_token(token_file) = None

\* C8: a record written by a save_token that succeeds is read back by
\* load_token with the same access_token, the same expires_at and the same
\* other fields, whatever the store held before.
C8_SaveLoadRoundTrip ==
    last.io = "ok"
       => /\ IsSome(load_token(token_file))
          /\ Get(load_token(token_file)[1], "access_token")
                = Get(last.fetched[1], "access_token")
          /\ Get(load_token(token_file)[1], "expires_at")
                = Get(last.fetched[1], "expires_at")
          /\ load_token(token_file) = last.fetched

C8_Witness ==
    /\ last.io = "ok"
    /\ last.cache \in {"unparseable", "expired", "margin"}
    /\ DOMAIN last.fetched[1] = {"access_token", "expires_in", "expires_at"}
    /\ load_token(token_file) = last.fetched

\* C9: under OAuth2, when the cached token is unusable and the exchange fails
\* (network error, error status, malformed response, or no access_token in
\* the response), get_client raises the OAuth2 authentication error, builds
\* no headers, the business call is not made, and the token endpoint was
\* called once, not more.
C9_ExchangeFailure ==
    [][(ApiStep /\ OAuth2Pair /\ ~is_token_valid(load_token(token_file), now)
               /\ GrantFailed(last'))
         => /\ last'.error = "Authentication failed: Unable to obtain OAuth2 token"
            /\ last'.headers = None
            /\ last'.businessCalls = 0
            /\ last'.endpointCalls = 1]_vars

C9_Witness ==
    /\ OAuth2Pair
    /\ last.op = "api_operation"
    /\ last.endpoint = "error_status"
    /\ last.endpointCalls = 1
    /\ last.error = OAuth2Failure
    /\ last.businessCalls = 0

\* C10: when the write of the token file fails after a successful exchange,
\* get_oauth2_token still returns the acquired access_token, get_client
\* raises nothing and builds the Authorization header with it, and the token
\* store does not hold the new record.
C10_SaveFailureNotFatal ==
    (last.op = "api_operation" /\ OAuth2Pair /\ GrantSucceeded(last)
        /\ last.io \in {"open_failed", "write_failed"})
       => /\ last.access_token = Some(last.fetched[1]["access_token"])
          /\ last.error = ""
          /\ IsSome(last.headers)
          /\ Authorization(last) = "Bearer " \o last.fetched[1]["access_token"]
          /\ last.businessCalls = 1
          /\ load_token(token_file) # last.fetched

C10_Witness ==
    /\ last.op = "api_operation"
    /\ OAuth2Pair
    /\ GrantSucceeded(last)
    /\ last.io = "write_failed"
    /\ IsSome(last.headers)
    /\ load_token(token_file) = None

\* the token file yields no record: it is missing, empty, or does not parse
NoStoredRecord(f) == ~f.exists \/ f.content = <<>> \/ json_load(f.content) = None

\* the observation obs and the token file g left behind are what get_client
\* produces, for some endpoint and write behaviour, when it starts from a
\* missing token file (a write that never opened the file leaves f as it was)
AsWithNoToken(obs, f, g) ==
    \E ep \in EndpointOutcomes(now, issued) : \E io \in SaveOutcomes :
        LET c == get_client(auth_method, OAUTH2_CLIENT_ID, OAUTH2_CLIENT_SECRET,
                            API_KEY, Missing, now, ep, io)
        IN  /\ obs.error = c.error
            /\ obs.headers = c.headers
            /\ obs.endpoint = c.token.endpoint
            /\ obs.endpointCalls = c.token.endpointCalls
            /\ obs.fetched = c.token.fetched
            /\ obs.io = c.token.io
            /\ obs.access_token = c.token.access_token
            /\ g = IF c.token.file = Missing THEN f ELSE c.token.file

\* C11: load_token returns None for a token file that is missing, empty or
\* unparseable, and an OAuth2 get_client call on such a file does what it does
\* with no token yet: exactly one acquisition, and the same outcome.
C11_UnreadableStoreIsNoToken ==
    [][(ApiStep /\ OAuth2Pair /\ NoStoredRecord(token_file))
         => /\ load_token(token_file) = None
            /\ last'.endpointCalls = 1
            /\ last'.error \in {"", OAuth2Failure}
            /\ AsWithNoToken(last', token_file, token_file')]_vars

\* an API operation found a truncated token file, acquired a token and could
\* not open the file for writing, so the truncated file is still there
C11_Witness ==
    /\ OAuth2Pair
    /\ last.op = "api_operation"
    /\ last.cache = "unparseable"
    /\ token_file = FileWith(<<LBrace>>)
    /\ last.io = "open_failed"
    /\ last.endpointCalls = 1
    /\ GrantSucceeded(last)
    /\ IsSome(last.headers)

\* the texts the administrative tools return under "message" and under "error"
AdminMessages ==
    {"OAuth2 token refreshed successfully", "OAuth2 token cleared successfully",
     "No OAuth2 token file found"}

AdminErrors ==
    {"OAuth2 credentials not configured", "Failed to obtain new OAuth2 token",
     "Failed to refresh OAuth2 token: OSError", "Failed to clear OAuth2 token: OSError"}

\* C12: oauth2_refresh_token and oauth2_clear_token never raise: whatever the
\* credentials, the token file, the outcome of the deletion and of the token
\* endpoint, each returns a result with success = true, or success = false
\* and an error text; without credentials the refresh returns the latter.
C12_AdminToolsNeverRaise ==
    last.op \in {"oauth2_refresh_token", "oauth2_clear_token"}
        => /\ last.error = ""
           /\ last.result.success \in BOOLEAN
           /\ last.result.success => last.result.text \in AdminMessages
           /\ ~last.result.success => last.result.text \in AdminErrors
           /\ (last.op = "oauth2_refresh_token" /\ ~OAuth2Pair)
                => last.result = Result(FALSE, "OAuth2 credentials not configured")

\* a forced refresh whose deletion of the token file failed
C12_Witness ==
    /\ OAuth2Pair
    /\ last.op = "oauth2_refresh_token"
    /\ last.error = ""
    /\ last.result = Result(FALSE, "Failed to refresh OAuth2 token: OSError")
    /\ token_file.exists

\* the step is one oauth2_refresh_token call
RefreshStep == last'.op = "oauth2_refresh_token" /\ now' = now

\* C13 as stated: with OAuth2 credentials, oauth2_refresh_token makes exactly
\* one token-endpoint call whatever the stored token, and when the exchange
\* succeeds it reports success and the token store holds the new record.
C13_AsStated ==
    [][(RefreshStep /\ OAuth2Pair)
         => /\ last'.endpointCalls = 1
            /\ GrantSucceeded(last')
                 => /\ last'.result.success
                    /\ load_token(token_file') = last'.fetched]_vars

\* C13 (amended): with OAuth2 credentials, oauth2_refresh_token makes exactly
\* one token-endpoint call whatever the stored token, unless the deletion of
\* the token file fails: then it makes none, reports failure and leaves the
\* file alone. When the exchange succeeds it reports success, the previous
\* record is gone, and the store holds the new record when its write succeeds.
C13_ForcedRefresh ==
    [][(RefreshStep /\ OAuth2Pair)
         => IF last'.result.text = "Failed to refresh OAuth2 token: OSError"
               THEN /\ token_file.exists
                    /\ last'.endpointCalls = 0
                    /\ ~last'.result.success
                    /\ token_file' = token_file
               ELSE /\ last'.endpointCalls = 1
                    /\ GrantSucceeded(last')
                         => /\ last'.result.success
                            /\ load_token(token_file') \in {last'.fetched, None}
                            /\ IsSome(load_token(token_file))
                                 => load_token(token_file') # load_token(token_file)
                            /\ last'.io = "ok" => load_token(token_file') = last'.fetched]_vars

\* a forced refresh replaced a stored token that was still valid
C13_Witness ==
    /\ OAuth2Pair
    /\ last.op = "oauth2_refresh_token"
    /\ last.cache = "beyond_margin"
    /\ last.endpointCalls = 1
    /\ GrantSucceeded(last)
    /\ last.io = "ok"
    /\ last.result = Result(TRUE, "OAuth2 token refreshed successfully")
    /\ load_token(token_file) = last.fetched

\* every call that asked the token endpoint was answered with an access token
WorkingEndpoint ==
    \A p \in Callers :
        calls[p].endpoint # "not_called"
            => /\ calls[p].endpoint = "token"
               /\ Truthy(Get(calls[p].fetched[1], "access_token"))

AllDone == \A p \in Callers : calls[p].pc = "done"

\* at most one acquisition per call, and a header only ever carries the token
\* issued to the call itself or a stored token that was valid when loaded
ConcurrentCallsSafe ==
    WorkingEndpoint
        => /\ issued = Cardinality({p \in Callers : calls[p].endpoint = "token"})
           /\ issued <= Cardinality(Callers)
           /\ \A p, q \in Callers :
                 (p # q /\ IsSome(calls[p].fetched) /\ IsSome(calls[q].fetched))
                     => calls[p].fetched[1]["access_token"]
                            # calls[q].fetched[1]["access_token"]
           /\ \A p \in Callers :
                 IsSome(calls[p].headers)
                     => \/ /\ IsSome(calls[p].fetched)
                           /\ calls[p].headers[1]["Authorization"]
                                = "Bearer " \o calls[p].fetched[1]["access_token"]
                        \/ /\ IsSome(calls[p].loaded)
                           /\ is_token_valid(calls[p].loaded, now)
                           /\ calls[p].headers[1]["Authorization"]
                                = "Bearer " \o calls[p].loaded[1]["access_token"]

\* C14 as stated: two concurrent OAuth2 get_client calls that start from an
\* expired or absent stored token, with a working token endpoint, make at
\* most one acquisition each, each header carries the token issued to that
\* call or a stored token that was valid when loaded, and when both are done
\* the token store holds the record of the call that wrote last.
C14_AsStated ==
    /\ ConcurrentCallsSafe
    /\ (WorkingEndpoint /\ AllDone /\ writer # 0)
          => load_token(token_file) = calls[writer].fetched

\* what does hold of the store at the end: the record of the call that wrote
\* last, or a file that does not parse
FinalWriterOrUnparseable ==
    (WorkingEndpoint /\ AllDone /\ writer # 0)
        => load_token(token_file) \in {calls[writer].fetched, None}

\* the token endpoint answered with a record that has neither expires_at nor
\* expires_in
NoExpiryResponse(obs) ==
    /\ obs.endpoint = "token"
    /\ IsSome(obs.fetched)
    /\ ~HasKey(obs.fetched[1], "expires_at")
    /\ ~HasKey(obs.fetched[1], "expires_in")

\* an OAuth2 get_client call that finds a stored record without expires_at
\* makes exactly one token-endpoint call and serves the token of that call
NoExpiryIsRefetched ==
    (ApiStep /\ OAuth2Pair /\ CacheState(token_file, now) = "no_expiry")
        => /\ last'.endpointCalls = 1
           /\ IsSome(last'.headers)
                => /\ GrantSucceeded(last')
                   /\ Authorization(last') = "Bearer " \o last'.fetched[1]["access_token"]
                   /\ Some(last'.fetched[1]["access_token"]) # StoredAccessToken(token_file)

\* C15 as stated: a grant response with neither expires_at nor expires_in is
\* saved without expires_at, and every OAuth2 get_client call that finds a
\* stored record without expires_at makes one fresh acquisition and never
\* serves the stored access_token.
C15_AsStated ==
    [][/\ (ApiStep /\ OAuth2Pair /\ NoExpiryResponse(last'))
            => /\ load_token(token_file') = last'.fetched
               /\ ~HasKey(load_token(token_file')[1], "expires_at")
       /\ NoExpiryIsRefetched]_vars

\* C15 (amended): a grant response with neither expires_at nor expires_in is
\* handed to save_token without expires_at and stored as such when the write
\* succeeds; whatever the write does, the store then holds no record that is
\* valid now or later; and every OAuth2 get_client call that finds a stored
\* record without expires_at makes one fresh acquisition and never serves the
\* stored access_token.
C15_NoExpiryNeverUsable ==
    [][/\ (ApiStep /\ OAuth2Pair /\ NoExpiryResponse(last'))
            => /\ last'.io = "ok"
                    => /\ load_token(token_file') = last'.fetched
                       /\ ~HasKey(load_token(token_file')[1], "expires_at")
               /\ \A t \in now .. MaxTime : ~is_token_valid(load_token(token_file'), t)
       /\ NoExpiryIsRefetched]_vars

\* an API operation found a stored record without expires_at, acquired a
\* token whose response again carried no expiry, and stored it
C15_Witness ==
    /\ OAuth2Pair
    /\ last.op = "api_operation"
    /\ last.cache = "no_expiry"
    /\ last.endpointCalls = 1
    /\ GrantSucceeded(last)
    /\ NoExpiryResponse(last)
    /\ IsSome(last.headers)
    /\ last.io = "ok"
    /\ load_token(token_file) = last.fetched
    /\ CacheState(token_file, now) = "no_expiry"

\* C16: a successful acquisition is in the token store when the access token
\* is returned (the write succeeding), with expires_at = time of receipt +
\* expires_in when the response gives a relative lifetime; so from an empty
\* store and with a lifetime above 60 seconds the first OAuth2 get_client call
\* makes the one acquisition and leaves a valid record, and every later call
\* made while now < expires_at - 60 makes none, changes nothing in the store
\* and serves the stored token.
C16_OneAcquisitionPerLifetime ==
    [][(ApiStep /\ OAuth2Pair)
         => /\ (load_token(token_file) = None /\ GrantSucceeded(last') /\ last'.io = "ok")
                 => /\ last'.endpointCalls = 1
                    /\ load_token(token_file') = last'.fetched
                    /\ Authorization(last') = "Bearer " \o last'.fetched[1]["access_token"]
                    /\ HasKey(last'.fetched[1], "expires_in")
                         => /\ last'.fetched[1]["expires_at"]
                                 = now + last'.fetched[1]["expires_in"]
                            /\ last'.fetched[1]["expires_in"] > SAFETY_MARGIN
                                 => is_token_valid(load_token(token_file'), now)
            /\ is_token_valid(load_token(token_file), now)
                 => /\ last'.endpointCalls = 0
                    /\ token_file' = token_file
                    /\ Truthy(StoredAccessToken(token_file))
                         => Authorization(last')
                              = "Bearer " \o StoredAccessToken(token_file)[1]]_vars

\* an API operation was served from the store, without an endpoint call, by
\* a record acquired at an earlier time, stamped with an expires_at counted
\* from the time of receipt
C16_Witness ==
    /\ OAuth2Pair
    /\ last.op = "api_operation"
    /\ last.endpointCalls = 0
    /\ IsSome(last.headers)
    /\ IsSome(load_token(token_file))
    /\ HasKey(load_token(token_file)[1], "expires_in")
    /\ \E t \in ClockValues :
          /\ t < now
          /\ load_token(token_file)[1]["expires_at"]
                = t + load_token(token_file)[1]["expires_in"]
    /\ Authorization(last) = "Bearer " \o StoredAccessToken(token_file)[1]

\* C17 as stated: when the exchange of a forced refresh fails, the tool
\* returns success = false and the token file is absent, the stored token
\* having been deleted before the exchange; and the next OAuth2 get_client
\* call makes an acquisition.
C17_AsStated ==
    [][/\ (RefreshStep /\ OAuth2Pair /\ GrantFailed(last'))
            => /\ ~last'.result.success
               /\ token_file' = Missing
       /\ (ApiStep /\ OAuth2Pair /\ last.op = "oauth2_refresh_token" /\ GrantFailed(last))
            => last'.endpointCalls = 1]_vars

\* the same for an exchange that fails by raising (network error, error
\* status, unreadable response)
RefreshFailureLosesToken ==
    [][/\ (RefreshStep /\ OAuth2Pair /\ last'.endpoint \in FetchFailures)
            => /\ ~last'.result.success
               /\ token_file' = Missing
       /\ (ApiStep /\ OAuth2Pair /\ last.op = "oauth2_refresh_token"
              /\ last.endpoint \in FetchFailures)
            => last'.endpointCalls = 1]_vars

\* C18 as stated: an OAuth2 get_client call never raises "Authentication
\* failed" without having asked the token endpoint in that operation; in
\* particular not for a stored record that passes the validity check but has
\* no access_token, or an empty one.
C18_AsStated ==
    (last.op = "api_operation" /\ OAuth2Pair /\ last.error = OAuth2Failure)
        => last.endpointCalls >= 1

\* C19 as stated: when the acquisition get_client asks for returns no access
\* token, whatever the token endpoint did, the token file is afterwards what
\* it was before.
C19_AsStated ==
    [][(ApiStep /\ OAuth2Pair /\ last'.endpointCalls = 1 /\ ~Truthy(last'.access_token))
         => token_file' = token_file]_vars

\* the same for an exchange that fails by raising
RaisingFetchLeavesStore ==
    [][(ApiStep /\ OAuth2Pair /\ last'.endpoint \in FetchFailures)
         => token_file' = token_file]_vars

====
